---- MODULE Spec2Model ----
(***************************************************************************)
(* Model of garmin-workouts-mcp: the credential manager (GarminAuth), the  *)
(* workout submission (createGarminWorkout) and the three MCP tool          *)
(* handlers that compose them.  Tool invocations are asynchronous handlers  *)
(* of one Node.js process: each runs atomically between two awaits and the  *)
(* handlers of different invocations interleave at the awaits.              *)
(***************************************************************************)
EXTENDS Integers, Sequences, FiniteSets, TLC

\* ------------------------------------------------------------------ bounds
\* The clock advances in seconds, from 0 up to MaxTicks seconds.
MaxTicks == 2
\* Largest `exp` claim (epoch seconds) carried by a token of the model.
MaxExp == 31
\* Most requests noted in the history of one acquisition.
MaxRequests == 3

\* The tool invocations in flight: the server handles requests concurrently,
\* and two calls at once are the case the concurrency of the handlers shows in.
Procs == {1, 2}

\* ------------------------------------------------- JavaScript number values
\* Non-negative integers are themselves; the three non-numbers that reach
\* arithmetic and comparison in the code are encoded below zero.
NaN == -1
Null == -2
Undefined == -3

\* ToNumber as applied by `*` and `<`.
ToNumber(v) == IF v = Null THEN 0 ELSE IF v = Undefined THEN NaN ELSE v

\* a * b on JavaScript numbers.
JsTimes(a, b) ==
    IF ToNumber(a) = NaN \/ ToNumber(b) = NaN THEN NaN
    ELSE ToNumber(a) * ToNumber(b)

\* a < b on JavaScript numbers: false whenever an operand is NaN.
JsLess(a, b) ==
    IF ToNumber(a) = NaN \/ ToNumber(b) = NaN THEN FALSE
    ELSE ToNumber(a) < ToNumber(b)

\* ------------------------------------------------------------------ tokens
\* One dot-separated segment of a bearer credential: either text whose
\* base64 decoding is not JSON, or the JSON claims object it decodes to.
GarbageSegment == [kind |-> "garbage", exp |-> Undefined, iat |-> Undefined]
ClaimsSegment(e, i) == [kind |-> "claims", exp |-> e, iat |-> i]

\* The value of an `authorization` request header: its scheme and the
\* segments of what follows the scheme.
Jwt(e, i) == [scheme |-> "Bearer",
              parts |-> <<GarbageSegment, ClaimsSegment(e, i), GarbageSegment>>]
OpaqueBearer == [scheme |-> "Bearer", parts |-> <<GarbageSegment>>]
NoExpBearer == Jwt(Undefined, 0)
BasicHeader == [scheme |-> "Basic", parts |-> <<GarbageSegment>>]
NoHeader == [scheme |-> "undefined", parts |-> <<>>]
\* The empty string `authToken` starts as.
NoToken == [scheme |-> "", parts |-> <<>>]

BearerHeaders == {Jwt(MaxExp, 1), OpaqueBearer, NoExpBearer}
Headers == BearerHeaders \cup {BasicHeader, NoHeader}

\* `authHeader && authHeader.startsWith("Bearer ")`
IsBearer(h) == h.scheme = "Bearer"

\* The cookies of the browser session, and the cookie header made of them:
\* pageCookies.map((c) => `${c.name}=${c.value}`).join("; ")
NoCookies == ""
CookieJars == {<<>>, <<[name |-> "SESSIONID", value |-> "1"],
                       [name |-> "JWT_FGP", value |-> "2"]>>}
RECURSIVE JoinCookies(_)
JoinCookies(jar) ==
    IF jar = <<>> THEN ""
    ELSE IF Len(jar) = 1 THEN jar[1].name \o "=" \o jar[1].value
    ELSE jar[1].name \o "=" \o jar[1].value \o "; " \o JoinCookies(Tail(jar))

\* ------------------------------------------------------------- credentials
\* AuthData, and the value `null` of type AuthData | null.
NoAuth == [authToken |-> NoToken, cookies |-> NoCookies,
           expiresAt |-> Null, issuedAt |-> Null, isNull |-> TRUE]
AuthRecord(t, c, e, i) == [authToken |-> t, cookies |-> c,
                           expiresAt |-> e, issuedAt |-> i, isNull |-> FALSE]

bufferMs == 30 * 1000

parseJWTFallbackToMaxExp(token) ==
    LET parts == token.parts
    IN  IF Len(parts) < 2 THEN [exp |-> MaxExp, iat |-> 0]
        ELSE IF parts[2].kind # "claims" THEN [exp |-> MaxExp, iat |-> 0]
        ELSE [exp |-> parts[2].exp, iat |-> parts[2].iat]

\* parseJWT: the claims of the middle segment, or {exp: 0, iat: 0} when the
\* token has no middle segment or it does not decode to JSON.
parseJWT(token) ==
    LET parts == token.parts
    IN  IF Len(parts) < 2 THEN [exp |-> 0, iat |-> 0]
        ELSE IF parts[2].kind # "claims" THEN [exp |-> 0, iat |-> 0]
        ELSE [exp |-> parts[2].exp, iat |-> parts[2].iat]

isTokenValidInclusive(authData, now) ==
    JsLess(now + bufferMs - 1, authData.expiresAt)

\* isTokenValid: now + bufferMs < expiresAt.
isTokenValid(authData, now) == JsLess(now + bufferMs, authData.expiresAt)

\* ------------------------------------------------------------ the auth file
\* The file is absent, or holds text: the empty string, text that is not
\* JSON, the JSON text `null`, or the JSON text of an object.
AbsentFile == [kind |-> "absent", val |-> NoAuth]
EmptyFile == [kind |-> "empty", val |-> NoAuth]
GarbageFile == [kind |-> "garbage", val |-> NoAuth]
JsonNullFile == [kind |-> "json", val |-> NoAuth]
\* The JSON text `{}`: an object with none of the AuthData fields.
EmptyObject == [authToken |-> NoHeader, cookies |-> NoCookies,
                expiresAt |-> Undefined, issuedAt |-> Undefined, isNull |-> FALSE]
EmptyObjectFile == [kind |-> "json", val |-> EmptyObject]

\* JSON.stringify of a number: NaN is written as null.
JsonNumber(n) == IF n = NaN THEN Null ELSE n

\* JSON.stringify(authData, null, 2)
JsonStringify(a) ==
    [kind |-> "json",
     val |-> [a EXCEPT !.expiresAt = JsonNumber(@), !.issuedAt = JsonNumber(@)]]

\* JSON.parse(data): the value, or a thrown SyntaxError.
JsonParse(file) ==
    IF file.kind = "json" THEN [threw |-> FALSE, val |-> file.val]
    ELSE [threw |-> TRUE, val |-> NoAuth]

loadStoredAuthNoCatch(file) ==
    IF file.kind = "absent" THEN [threw |-> FALSE, val |-> NoAuth]
    ELSE JsonParse(file)

\* loadStoredAuth: null for an absent file and for any error thrown while
\* reading or parsing; the parsed value otherwise.
loadStoredAuth(file) ==
    IF file.kind = "absent" THEN [threw |-> FALSE, val |-> NoAuth]
    ELSE LET r == JsonParse(file)
         IN  IF r.threw THEN [threw |-> FALSE, val |-> NoAuth] ELSE r

\* getValidAuth: the stored value when it is truthy and valid, else null.
getValidAuth(file, now) ==
    LET stored == loadStoredAuth(file)
    IN  IF stored.threw THEN [threw |-> TRUE, val |-> NoAuth]
        ELSE IF ~stored.val.isNull /\ isTokenValid(stored.val, now)
             THEN [threw |-> FALSE, val |-> stored.val]
             ELSE [threw |-> FALSE, val |-> NoAuth]

\* storeAuth: writeFileSync replaces the file; an error is logged, not thrown.
storeAuth(file, authData, writeOk) ==
    IF writeOk THEN JsonStringify(authData) ELSE file

\* clearAuth: blank the file if it exists.
clearAuth(file, writeOk) ==
    IF file.kind # "absent" /\ writeOk THEN EmptyFile ELSE file

\* ------------------------------------------------------------------- state
VARIABLES
    now,        \* Date.now(), in milliseconds
    authFile,   \* content of ~/.config/garmin-workouts-mcp/auth.json
    pc,         \* per invocation: the await its handler is suspended at
    tool,       \* per invocation: the tool being called
    browser,    \* per invocation: the browser launched by authenticate
    authToken,  \* per invocation: authenticate's local `authToken`
    cookies,    \* per invocation: authenticate's local `cookies`
    authData,   \* per invocation: `authData` of authenticate / of the handler
    threw,      \* per invocation: authenticate ended by throwing
    wrote,      \* per invocation: storeAuth of this call replaced the file
    posts,      \* per invocation: HTTP POSTs issued by createGarminWorkout
    status,     \* per invocation: `response.status` of the POST, 0 before it
    body,       \* per invocation: the body of the POST's response
    raised,     \* per invocation: message of the error thrown inside
                \* createGarminWorkout's try block, "" when none was
    requests,   \* per invocation: history of the authorization headers of
                \* the requests the page made while authenticate drives it
                \* (noted by ObservedRequest only)
    reloads,    \* per invocation: calls of page.reload() by the running
                \* authenticate
    loginCompleted, \* per invocation: in the running authenticate,
                \* waitForFunction and page.cookies() resolved, so
                \* `if (!authToken)` was reached
    workoutData, \* the WorkoutData handed to convertToGarminPayload
    payload,    \* the payload convertToGarminPayload returned for it
    response    \* per invocation: the tool response

vars == <<now, authFile, pc, tool, browser, authToken, cookies, authData,
          threw, wrote, posts, status, body, raised, response,
          requests, reloads, loginCompleted, workoutData, payload>>

\* The tools of the server.
Authenticate == "authenticate_garmin"
Create == "create_garmin_workout"
Check == "check_garmin_auth"

\* Files a previous run of the server, or the user, can have left behind.
InitialFiles ==
    {AbsentFile, EmptyFile, GarbageFile, JsonNullFile, EmptyObjectFile,
     JsonStringify(AuthRecord(Jwt(MaxExp, 0), "SESSIONID=1; JWT_FGP=2",
                              MaxExp * 1000, 0))}

\* Number.prototype.toString of a non-negative integer: its decimal digits.
DecimalDigits == <<"0", "1", "2", "3", "4", "5", "6", "7", "8", "9">>

NumberToStringLastDigit(n) == DecimalDigits[(n % 10) + 1]

RECURSIVE NumberToString(_)
NumberToString(n) ==
    IF n < 10 THEN DecimalDigits[n + 1]
    ELSE NumberToString(n \div 10) \o DecimalDigits[(n % 10) + 1]

\* Bodies of the POST's response: JSON text holding an object with
\* workoutId and workoutName (workoutId Undefined when the object has none),
\* or text that is not JSON.
JsonBody(id, name) ==
    [json |-> TRUE, workoutId |-> id, workoutName |-> name, text |-> ""]
TextBody(text) ==
    [json |-> FALSE, workoutId |-> Undefined, workoutName |-> "", text |-> text]
NoBody == TextBody("")
WorkoutIds == {7, 12345}
Bodies ==
    {JsonBody(id, "X") : id \in WorkoutIds}
        \cup {JsonBody(Undefined, ""), TextBody("Service unavailable")}

\* `response.statusText` as the server sends it with each status.
StatusText(st) ==
    CASE st = 200 -> "OK"
      [] st = 201 -> "Created"
      [] st = 401 -> "Unauthorized"
      [] st = 500 -> "Internal Server Error"
      [] OTHER -> ""

\* WorkoutResult.error values: the message and, for a template literal, the
\* values interpolated into it.
NoError == [msg |-> "", args |-> <<>>]
AuthExpiredError ==
    [msg |-> "Authentication expired. Please re-authenticate with Garmin Connect.",
     args |-> <<>>]
ApiError(st, statusText) ==
    [msg |-> "API error: ${response.status} ${response.statusText}",
     args |-> <<NumberToString(st), statusText>>]
ThrownErrorGeneric(message) == [msg |-> "Unknown error", args |-> <<>>]
ThrownError(message) == [msg |-> message, args |-> <<>>]

\* WorkoutResult values.
NoCreated == [workoutId |-> "", name |-> "", url |-> ""]
Success(workoutId, name) ==
    [success |-> TRUE,
     created |-> [workoutId |-> workoutId, name |-> name,
                  url |-> "https://connect.garmin.com/modern/workout/" \o workoutId],
     error |-> NoError]
Failure(error) == [success |-> FALSE, created |-> NoCreated, error |-> error]

\* Tool responses: the text, and the `result.error` or the result's name,
\* workoutId and url interpolated into it.
Resp(text, error) == [text |-> text, error |-> error, created |-> NoCreated]
RespNone == Resp("", NoError)
RespAuthRequired ==
    Resp("Authentication required. Please run the 'authenticate_garmin' tool", NoError)
RespCreated(result) ==
    [text |-> "Workout created successfully!", error |-> NoError,
     created |-> result.created]
RespCreateFailed(error) == Resp("Failed to create workout: ${result.error}", error)
RespCreateError == Resp("Error creating workout: ${error.message}", NoError)
RespValid == Resp("Garmin authentication is valid and ready to use.", NoError)
RespNoValidAuth == Resp("No valid Garmin authentication found.", NoError)
RespAuthenticated == Resp("Successfully authenticated with Garmin Connect!", NoError)
RespAuthFailed == Resp("Authentication failed.", NoError)
RespAuthError == Resp("Authentication error: ${error.message}", NoError)

\* No workout is being converted.
NoWorkout == [name |-> "", sport |-> "", steps |-> <<>>]
NoPayload == [workoutName |-> "", workoutSegments |-> <<>>]

Init ==
    /\ now = 0
    /\ authFile \in InitialFiles
    /\ pc = [p \in Procs |-> "idle"]
    /\ tool = [p \in Procs |-> "none"]
    /\ browser = [p \in Procs |-> "none"]
    /\ authToken = [p \in Procs |-> NoToken]
    /\ cookies = [p \in Procs |-> NoCookies]
    /\ authData = [p \in Procs |-> NoAuth]
    /\ threw = [p \in Procs |-> FALSE]
    /\ wrote = [p \in Procs |-> FALSE]
    /\ posts = [p \in Procs |-> 0]
    /\ status = [p \in Procs |-> 0]
    /\ body = [p \in Procs |-> NoBody]
    /\ raised = [p \in Procs |-> ""]
    /\ response = [p \in Procs |-> RespNone]
    /\ requests = [p \in Procs |-> <<>>]
    /\ reloads = [p \in Procs |-> 0]
    /\ loginCompleted = [p \in Procs |-> FALSE]
    /\ workoutData = NoWorkout
    /\ payload = NoPayload

\* The server takes a call of tool t on the free slot p: the handler starts.
Fresh(p, t) ==
    /\ pc[p] = "idle"
    /\ tool' = [tool EXCEPT ![p] = t]
    /\ UNCHANGED <<browser, authToken, cookies, threw, wrote>>
    /\ UNCHANGED <<workoutData, payload>>
    /\ UNCHANGED <<requests, reloads, loginCompleted>>

\* The response of a finished handler has been sent; its slot is free again.
Respond(p) ==
    /\ pc[p] = "done"
    /\ pc' = [pc EXCEPT ![p] = "idle"]
    /\ tool' = [tool EXCEPT ![p] = "none"]
    /\ browser' = [browser EXCEPT ![p] = "none"]
    /\ authToken' = [authToken EXCEPT ![p] = NoToken]
    /\ cookies' = [cookies EXCEPT ![p] = NoCookies]
    /\ authData' = [authData EXCEPT ![p] = NoAuth]
    /\ threw' = [threw EXCEPT ![p] = FALSE]
    /\ wrote' = [wrote EXCEPT ![p] = FALSE]
    /\ posts' = [posts EXCEPT ![p] = 0]
    /\ status' = [status EXCEPT ![p] = 0]
    /\ body' = [body EXCEPT ![p] = NoBody]
    /\ raised' = [raised EXCEPT ![p] = ""]
    /\ response' = [response EXCEPT ![p] = RespNone]
    /\ requests' = [requests EXCEPT ![p] = <<>>]
    /\ reloads' = [reloads EXCEPT ![p] = 0]
    /\ loginCompleted' = [loginCompleted EXCEPT ![p] = FALSE]
    /\ UNCHANGED <<now, authFile>>
    /\ UNCHANGED <<workoutData, payload>>

\* The clock advances by one second.
Tick ==
    /\ now < MaxTicks * 1000
    /\ now' = now + 1000
    /\ UNCHANGED <<authFile, pc, tool, browser, authToken, cookies, authData,
                   threw, wrote, posts, status, body, raised,
                   response>>
    /\ UNCHANGED <<workoutData, payload>>
    /\ UNCHANGED <<requests, reloads, loginCompleted>>

\* ------------------------------------------------ tool: check_garmin_auth
CheckGarminAuth(p) ==
    /\ Fresh(p, Check)
    /\ LET r == getValidAuth(authFile, now)
       IN  /\ authData' = [authData EXCEPT ![p] = r.val]
           /\ response' = [response EXCEPT ![p] =
                 IF r.threw THEN RespAuthError
                 ELSE IF ~r.val.isNull THEN RespValid ELSE RespNoValidAuth]
    /\ pc' = [pc EXCEPT ![p] = "done"]
    /\ posts' = [posts EXCEPT ![p] = 0]
    /\ UNCHANGED <<now, authFile, status, body, raised>>

\* -------------------------------------------- tool: create_garmin_workout
HttpStatuses == {200, 201, 401, 500}

\* Messages of the errors thrown inside createGarminWorkout's try block.
MapOfUndefined == "Cannot read properties of undefined (reading 'map')"
UnexpectedToken == "Unexpected token S in JSON at position 0"
ToStringOfUndefined == "Cannot read properties of undefined (reading 'toString')"
FetchFailed == "fetch failed"

\* The error thrown while a response is handled, "" when none is:
\* response.json() rejects for a body that is not JSON, and
\* result.workoutId.toString() throws for an object without a workoutId.
ErrorRaised(st, b) ==
    IF st >= 200 /\ st <= 299
    THEN IF ~b.json THEN UnexpectedToken
         ELSE IF b.workoutId = Undefined THEN ToStringOfUndefined
         ELSE ""
    ELSE ""

\* createGarminWorkout's mapping of an HTTP response to a WorkoutResult.
WorkoutResultOf(st, b) ==
    IF ErrorRaised(st, b) # ""
    THEN Failure(ThrownError(ErrorRaised(st, b)))
    ELSE IF st >= 200 /\ st <= 299
    THEN Success(NumberToString(b.workoutId), b.workoutName)
    ELSE IF st = 401
    THEN Failure(AuthExpiredError)
    ELSE Failure(ApiError(st, StatusText(st)))

\* The handler's answer to a WorkoutResult.
RespOfResult(result) ==
    IF result.success THEN RespCreated(result) ELSE RespCreateFailed(result.error)

\* The handler up to its first suspension: getValidAuth and, with a
\* credential, createGarminWorkout up to the fetch it awaits.  A workout
\* whose steps cannot be converted throws inside createGarminWorkout's try
\* before any request is made.
CreateGarminWorkout(p, stepsOk) ==
    /\ Fresh(p, Create)
    /\ LET r == getValidAuth(authFile, now)
       IN  /\ authData' = [authData EXCEPT ![p] = r.val]
           /\ IF r.threw \/ r.val.isNull
              THEN /\ response' = [response EXCEPT ![p] =
                         IF r.threw THEN RespCreateError ELSE RespAuthRequired]
                   /\ posts' = [posts EXCEPT ![p] = 0]
                   /\ pc' = [pc EXCEPT ![p] = "done"]
                   /\ UNCHANGED raised
              ELSE IF ~stepsOk
              THEN /\ raised' = [raised EXCEPT ![p] = MapOfUndefined]
                   /\ response' = [response EXCEPT ![p] =
                         RespOfResult(Failure(ThrownError(MapOfUndefined)))]
                   /\ posts' = [posts EXCEPT ![p] = 0]
                   /\ pc' = [pc EXCEPT ![p] = "done"]
              ELSE /\ response' = [response EXCEPT ![p] = RespNone]
                   /\ posts' = [posts EXCEPT ![p] = 1]
                   /\ pc' = [pc EXCEPT ![p] = "fetch"]
                   /\ UNCHANGED raised
    /\ UNCHANGED <<now, authFile, status, body>>

FetchResponseRetryOn401(p, st, b) ==
    /\ pc[p] = "fetch"
    /\ IF st = 401 /\ posts[p] < 2
       THEN /\ posts' = [posts EXCEPT ![p] = @ + 1]
            /\ UNCHANGED <<pc, status, body, raised, response>>
       ELSE /\ status' = [status EXCEPT ![p] = st]
            /\ body' = [body EXCEPT ![p] = b]
            /\ raised' = [raised EXCEPT ![p] = ErrorRaised(st, b)]
            /\ response' = [response EXCEPT ![p] =
                  RespOfResult(WorkoutResultOf(st, b))]
            /\ pc' = [pc EXCEPT ![p] = "done"]
            /\ UNCHANGED posts
    /\ UNCHANGED <<now, authFile, tool, browser, authToken, cookies, authData,
                   threw, wrote>>
    /\ UNCHANGED <<workoutData, payload>>
    /\ UNCHANGED <<requests, reloads, loginCompleted>>

\* The fetch resolves with an HTTP response and its body is read:
\* createGarminWorkout returns its result and the handler answers with it.
FetchResponse(p, st, b) ==
    /\ pc[p] = "fetch"
    /\ status' = [status EXCEPT ![p] = st]
    /\ body' = [body EXCEPT ![p] = b]
    /\ raised' = [raised EXCEPT ![p] = ErrorRaised(st, b)]
    /\ response' = [response EXCEPT ![p] = RespOfResult(WorkoutResultOf(st, b))]
    /\ pc' = [pc EXCEPT ![p] = "done"]
    /\ UNCHANGED <<now, authFile, tool, browser, authToken, cookies, authData,
                   threw, wrote, posts>>
    /\ UNCHANGED <<workoutData, payload>>
    /\ UNCHANGED <<requests, reloads, loginCompleted>>

\* The fetch rejects (DNS, connection, timeout): caught by createGarminWorkout.
FetchFails(p) ==
    /\ pc[p] = "fetch"
    /\ raised' = [raised EXCEPT ![p] = FetchFailed]
    /\ response' = [response EXCEPT ![p] =
          RespOfResult(Failure(ThrownError(FetchFailed)))]
    /\ pc' = [pc EXCEPT ![p] = "done"]
    /\ UNCHANGED <<now, authFile, tool, browser, authToken, cookies, authData,
                   threw, wrote, posts, status, body>>
    /\ UNCHANGED <<workoutData, payload>>
    /\ UNCHANGED <<requests, reloads, loginCompleted>>

\* ---------------------------------------------- tool: authenticate_garmin
\* The handler calls authenticate, which starts puppeteer.launch.
AuthenticateGarmin(p) ==
    /\ Fresh(p, Authenticate)
    /\ authData' = [authData EXCEPT ![p] = NoAuth]
    /\ posts' = [posts EXCEPT ![p] = 0]
    /\ response' = [response EXCEPT ![p] = RespNone]
    /\ pc' = [pc EXCEPT ![p] = "launch"]
    /\ UNCHANGED <<now, authFile, status, body, raised>>

\* authenticate ends by throwing; the handler's catch answers.
Throws(p) ==
    /\ threw' = [threw EXCEPT ![p] = TRUE]
    /\ response' = [response EXCEPT ![p] = RespAuthError]
    /\ pc' = [pc EXCEPT ![p] = "done"]

\* puppeteer.launch settles.  It is awaited before the try block: a
\* rejection leaves authenticate as an exception.  On success newPage and
\* the page set-up calls start, up to page.goto.
Launch(p, ok) ==
    /\ pc[p] = "launch"
    /\ IF ok
       THEN /\ browser' = [browser EXCEPT ![p] = "open"]
            /\ pc' = [pc EXCEPT ![p] = "goto"]
            /\ UNCHANGED <<threw, response>>
       ELSE /\ Throws(p)
            /\ UNCHANGED browser
    /\ UNCHANGED <<now, authFile, tool, authToken, cookies, authData, wrote, posts,
                   status, body, raised>>
    /\ UNCHANGED <<workoutData, payload>>
    /\ UNCHANGED <<requests, reloads, loginCompleted>>

CaughtWithoutFinally(p) ==
    /\ pc' = [pc EXCEPT ![p] = "done"]
    /\ authToken' = [authToken EXCEPT ![p] = NoToken]
    /\ cookies' = [cookies EXCEPT ![p] = NoCookies]
    /\ requests' = [requests EXCEPT ![p] = <<>>]
    /\ UNCHANGED <<authFile, authData, wrote>>

\* The catch block logs the error; the finally block starts browser.close().
CaughtThenClose(p) ==
    /\ pc' = [pc EXCEPT ![p] = "close"]
    /\ authToken' = [authToken EXCEPT ![p] = NoToken]
    /\ cookies' = [cookies EXCEPT ![p] = NoCookies]
    /\ requests' = [requests EXCEPT ![p] = <<>>]
    /\ UNCHANGED <<authFile, authData, wrote>>

OnRequestLastBearerWins(p, h) ==
    /\ pc[p] \in {"goto", "waitLogin", "reload"}
    /\ IF IsBearer(h)
       THEN authToken' = [authToken EXCEPT ![p] = h]
       ELSE UNCHANGED authToken
    /\ UNCHANGED <<now, authFile, pc, tool, browser, cookies, authData, threw,
                   wrote, posts, status, body, raised, response>>
    /\ UNCHANGED <<reloads, loginCompleted, workoutData, payload>>

\* The handler registered with page.on("request"), called with the
\* authorization header h of a request: it keeps the first bearer header.
OnRequest(p, h) ==
    /\ pc[p] \in {"goto", "waitLogin", "reload"}
    /\ IF IsBearer(h) /\ authToken[p] = NoToken
       THEN authToken' = [authToken EXCEPT ![p] = h]
       ELSE UNCHANGED authToken
    /\ UNCHANGED <<now, authFile, pc, tool, browser, cookies, authData, threw,
                   wrote, posts, status, body, raised, response>>
    /\ UNCHANGED <<reloads, loginCompleted, workoutData, payload>>

\* The page makes a request while it is driven.
Request(p, h) ==
    /\ OnRequest(p, h)
    /\ UNCHANGED requests

\* The same step with the header noted in the history of the acquisition.
ObservedRequest(p, h) ==
    /\ Len(requests[p]) < MaxRequests
    /\ OnRequest(p, h)
    /\ requests' = [requests EXCEPT ![p] = Append(@, h)]

\* newPage, setUserAgent, evaluateOnNewDocument, setViewport,
\* setRequestInterception and page.goto settle; waitForFunction starts.  An
\* error of any of them is caught.
Goto(p, ok) ==
    /\ pc[p] = "goto"
    /\ IF ok
       THEN /\ pc' = [pc EXCEPT ![p] = "waitLogin"]
            /\ UNCHANGED <<authFile, authToken, cookies, authData, wrote,
                           requests>>
       ELSE CaughtThenClose(p)
    /\ UNCHANGED <<now, tool, browser, threw, posts, status, body, raised,
                   response>>
    /\ UNCHANGED <<reloads, loginCompleted, workoutData, payload>>

\* `if (authToken && cookies)` to the finally block: with a token and
\* cookies, build the credential from the token's claims and store it; then
\* browser.close() starts.
CheckAndStore(p, tok, cks, writeOk) ==
    /\ IF tok # NoToken /\ cks # NoCookies
       THEN LET tokenPayload == parseJWT(tok)
                a == AuthRecord(tok, cks, JsTimes(tokenPayload.exp, 1000),
                                JsTimes(tokenPayload.iat, 1000))
            IN  /\ authData' = [authData EXCEPT ![p] = a]
                /\ authFile' = storeAuth(authFile, a, writeOk)
                /\ wrote' = [wrote EXCEPT ![p] = writeOk]
       ELSE UNCHANGED <<authData, authFile, wrote>>
    /\ authToken' = [authToken EXCEPT ![p] = NoToken]
    /\ cookies' = [cookies EXCEPT ![p] = NoCookies]
    /\ requests' = [requests EXCEPT ![p] = <<>>]
    /\ pc' = [pc EXCEPT ![p] = "close"]

\* waitForFunction settles: the login completed, or the 5 minutes elapsed
\* and it rejects with a TimeoutError.  After a login page.cookies() gives
\* the cookie jar (or rejects); without a token page.reload() starts, with
\* one the credential is checked and stored.
WaitLogin(p, loggedIn, jar, writeOk) ==
    /\ pc[p] = "waitLogin"
    /\ IF ~loggedIn
       THEN /\ CaughtThenClose(p)
            /\ UNCHANGED <<reloads, loginCompleted>>
       ELSE /\ loginCompleted' = [loginCompleted EXCEPT ![p] = TRUE]
            /\ IF authToken[p] = NoToken
               THEN /\ cookies' = [cookies EXCEPT ![p] = JoinCookies(jar)]
                    /\ reloads' = [reloads EXCEPT ![p] = @ + 1]
                    /\ pc' = [pc EXCEPT ![p] = "reload"]
                    /\ UNCHANGED <<authFile, authToken, authData, wrote,
                                   requests>>
               ELSE /\ CheckAndStore(p, authToken[p], JoinCookies(jar), writeOk)
                    /\ UNCHANGED reloads
    /\ UNCHANGED <<now, tool, browser, threw, posts, status, body, raised,
                   response>>
    /\ UNCHANGED <<workoutData, payload>>

\* page.reload() and the 3 second sleep settle.
Reload(p, ok, writeOk) ==
    /\ pc[p] = "reload"
    /\ IF ok
       THEN CheckAndStore(p, authToken[p], cookies[p], writeOk)
       ELSE CaughtThenClose(p)
    /\ UNCHANGED <<now, tool, browser, threw, posts, status, body, raised,
                   response>>
    /\ UNCHANGED <<reloads, loginCompleted, workoutData, payload>>

\* browser.close() settles: authenticate returns authData, or the rejection
\* leaves the finally block as an exception; its run is over.  The handler
\* answers.
Close(p, ok) ==
    /\ pc[p] = "close"
    /\ IF ok
       THEN /\ browser' = [browser EXCEPT ![p] = "closed"]
            /\ response' = [response EXCEPT ![p] =
                  IF authData[p].isNull THEN RespAuthFailed ELSE RespAuthenticated]
            /\ pc' = [pc EXCEPT ![p] = "done"]
            /\ UNCHANGED threw
       ELSE /\ browser' = [browser EXCEPT ![p] = "closeFailed"]
            /\ Throws(p)
    /\ reloads' = [reloads EXCEPT ![p] = 0]
    /\ loginCompleted' = [loginCompleted EXCEPT ![p] = FALSE]
    /\ UNCHANGED <<now, authFile, tool, authToken, cookies, authData, wrote, posts,
                   status, body, raised, requests, workoutData, payload>>

Next ==
    \/ Tick
    \/ \E p \in Procs : CheckGarminAuth(p)
    \/ \E p \in Procs, stepsOk \in BOOLEAN : CreateGarminWorkout(p, stepsOk)
    \/ \E p \in Procs, st \in HttpStatuses, b \in Bodies : FetchResponse(p, st, b)
    \/ \E p \in Procs : FetchFails(p)
    \/ \E p \in Procs : AuthenticateGarmin(p)
    \/ \E p \in Procs, ok \in BOOLEAN : Launch(p, ok)
    \/ \E p \in Procs, h \in Headers : Request(p, h)
    \/ \E p \in Procs, ok \in BOOLEAN : Goto(p, ok)
    \/ \E p \in Procs, loggedIn \in BOOLEAN, jar \in CookieJars, writeOk \in BOOLEAN :
          WaitLogin(p, loggedIn, jar, writeOk)
    \/ \E p \in Procs, ok \in BOOLEAN, writeOk \in BOOLEAN : Reload(p, ok, writeOk)
    \/ \E p \in Procs, ok \in BOOLEAN : Close(p, ok)
    \/ \E p \in Procs : Respond(p)

Spec == Init /\ [][Next]_vars

\* One acquisition at a time on one slot, with the history of its requests.
NextCapture ==
    \/ AuthenticateGarmin(1)
    \/ \E ok \in BOOLEAN : Launch(1, ok)
    \/ \E h \in Headers : ObservedRequest(1, h)
    \/ \E ok \in BOOLEAN : Goto(1, ok)
    \/ \E loggedIn \in BOOLEAN, jar \in CookieJars, writeOk \in BOOLEAN :
          WaitLogin(1, loggedIn, jar, writeOk)
    \/ \E ok \in BOOLEAN, writeOk \in BOOLEAN : Reload(1, ok, writeOk)
    \/ \E ok \in BOOLEAN : Close(1, ok)
    \/ Respond(1)

SpecCapture == Init /\ [][NextCapture]_vars

\* ================================================ the workout translator
\* The strings the translator inspects (a step's duration and target) are
\* sequences of one-character strings.
Digit == {DecimalDigits[i] : i \in DOMAIN DecimalDigits}
Whitespace == {" ", "\t"}
NumChar == Digit \cup {"."}
UpperLetters ==
    <<"A", "B", "C", "D", "E", "F", "G", "H", "I", "J", "K", "L", "M",
      "N", "O", "P", "Q", "R", "S", "T", "U", "V", "W", "X", "Y", "Z">>
LowerLetters ==
    <<"a", "b", "c", "d", "e", "f", "g", "h", "i", "j", "k", "l", "m",
      "n", "o", "p", "q", "r", "s", "t", "u", "v", "w", "x", "y", "z">>

\* The `i` flag of the regular expressions, and String.prototype.toLowerCase.
LowerChar(c) ==
    IF \E i \in DOMAIN UpperLetters : UpperLetters[i] = c
    THEN LowerLetters[CHOOSE i \in DOMAIN UpperLetters : UpperLetters[i] = c]
    ELSE c
toLowerCase(s) == [k \in 1..Len(s) |-> LowerChar(s[k])]

\* The string of a step whose optional field is undefined.
Missing == <<"">>

\* JavaScript numbers the translator computes: decimal fractions n / 10^e
\* in lowest form, or NaN.  Arithmetic on them is exact.
RECURSIVE Normalize(_, _)
Normalize(n, e) ==
    IF e > 0 /\ n % 10 = 0 THEN Normalize(n \div 10, e - 1) ELSE [n |-> n, e |-> e]
Dec(n) == [n |-> n, e |-> 0]
DecNaN == [n |-> NaN, e |-> 0]

RECURSIVE Pow10(_)
Pow10(e) == IF e = 0 THEN 1 ELSE 10 * Pow10(e - 1)

\* x * k for an integer literal k, and x + y.
DecTimes(x, k) == IF x.n = NaN THEN DecNaN ELSE Normalize(x.n * k, x.e)
DecPlus(x, y) ==
    IF x.n = NaN \/ y.n = NaN THEN DecNaN
    ELSE LET e == IF x.e > y.e THEN x.e ELSE y.e
         IN  Normalize(x.n * Pow10(e - x.e) + y.n * Pow10(e - y.e), e)

\* The value of a run of decimal digits.
DigitValue(c) == (CHOOSE i \in DOMAIN DecimalDigits : DecimalDigits[i] = c) - 1

RECURSIVE DigitsValue(_)
DigitsValue(ds) ==
    IF ds = <<>> THEN 0
    ELSE DigitsValue(SubSeq(ds, 1, Len(ds) - 1)) * 10 + DigitValue(ds[Len(ds)])

\* parseInt of a capture of \d+.
parseInt(ds) == DigitsValue(ds)

\* The end of the longest run of characters of a class that starts at i
\* (i - 1 when s[i] is not of the class): a greedy `+` or `*`.
RunEnd(s, i, class) ==
    CHOOSE j \in (i - 1)..Len(s) :
        /\ \A k \in i..j : s[k] \in class
        /\ j = Len(s) \/ s[j + 1] \notin class

\* The literal lit (in lower case) stands at i, whatever the case in s.
HasLit(s, i, lit) ==
    /\ i + Len(lit) - 1 <= Len(s)
    /\ \A k \in 1..Len(lit) : LowerChar(s[i + k - 1]) = lit[k]

\* String.prototype.match with a regular expression without the g flag:
\* the leftmost position where the expression matches, with its captures.
NoMatch == [found |-> FALSE, groups |-> <<>>]
Match(groups) == [found |-> TRUE, groups |-> groups]
FirstMatch(at) ==
    LET starts == {i \in DOMAIN at : at[i].found}
    IN  IF starts = {} THEN NoMatch
        ELSE at[CHOOSE i \in starts : \A j \in starts : i <= j]

\* /Zone\s+(\d+)/i at position i.
ZoneAt(s, i) ==
    IF ~HasLit(s, i, <<"z", "o", "n", "e">>) THEN NoMatch
    ELSE LET sp == RunEnd(s, i + 4, Whitespace)
         IN  IF sp < i + 4 THEN NoMatch
             ELSE LET d == RunEnd(s, sp + 1, Digit)
                  IN  IF d < sp + 1 THEN NoMatch
                      ELSE Match(<<SubSeq(s, sp + 1, d)>>)

\* /(\d+)\s*BPM/i at position i.
BpmAt(s, i) ==
    LET d == RunEnd(s, i, Digit)
    IN  IF d < i THEN NoMatch
        ELSE LET sp == RunEnd(s, d + 1, Whitespace)
             IN  IF HasLit(s, sp + 1, <<"b", "p", "m">>)
                 THEN Match(<<SubSeq(s, i, d)>>) ELSE NoMatch

\* /(\d+):(\d+)\/km/i at position i.
PaceAt(s, i) ==
    LET d == RunEnd(s, i, Digit)
    IN  IF d < i \/ ~HasLit(s, d + 1, <<":">>) THEN NoMatch
        ELSE LET f == RunEnd(s, d + 2, Digit)
             IN  IF f < d + 2 \/ ~HasLit(s, f + 1, <<"/", "k", "m">>) THEN NoMatch
                 ELSE Match(<<SubSeq(s, i, d), SubSeq(s, d + 2, f)>>)

\* /([\d.]+)\s*(km|m)/i at position i.
DistanceAt(s, i) ==
    LET d == RunEnd(s, i, NumChar)
    IN  IF d < i THEN NoMatch
        ELSE LET sp == RunEnd(s, d + 1, Whitespace)
             IN  IF HasLit(s, sp + 1, <<"k", "m">>)
                 THEN Match(<<SubSeq(s, i, d), SubSeq(s, sp + 1, sp + 2)>>)
                 ELSE IF HasLit(s, sp + 1, <<"m">>)
                 THEN Match(<<SubSeq(s, i, d), SubSeq(s, sp + 1, sp + 1)>>)
                 ELSE NoMatch

\* target.match(...) and duration.match(...) with each expression.
zoneMatch(target) == FirstMatch([i \in 1..Len(target) |-> ZoneAt(target, i)])
bpmMatch(target) == FirstMatch([i \in 1..Len(target) |-> BpmAt(target, i)])
paceMatch(target) == FirstMatch([i \in 1..Len(target) |-> PaceAt(target, i)])
distanceMatch(duration) ==
    FirstMatch([i \in 1..Len(duration) |-> DistanceAt(duration, i)])

\* The longest prefix of s that is a decimal literal: digits, then
\* optionally a point and digits.
LiteralPrefix(s) ==
    LET a == RunEnd(s, 1, Digit)
        pointed == a < Len(s) /\ s[a + 1] = "."
        f == IF pointed THEN RunEnd(s, a + 2, Digit) ELSE a
    IN  [int |-> SubSeq(s, 1, a),
         frac |-> IF pointed THEN SubSeq(s, a + 2, f) ELSE <<>>,
         end |-> f]

LiteralValue(lit) ==
    IF Len(lit.int) + Len(lit.frac) = 0 THEN DecNaN
    ELSE Normalize(DigitsValue(lit.int \o lit.frac), Len(lit.frac))

\* parseFloat of a capture of [\d.]+ : the value of its literal prefix.
parseFloat(s) == LiteralValue(LiteralPrefix(s))

\* String.prototype.trim.
Trim(s) ==
    LET kept == {i \in 1..Len(s) : s[i] \notin Whitespace}
    IN  IF kept = {} THEN <<>>
        ELSE SubSeq(s, CHOOSE i \in kept : \A j \in kept : i <= j,
                       CHOOSE i \in kept : \A j \in kept : j <= i)

\* Number(string): 0 for a blank string, the value of a decimal literal
\* that is the whole trimmed string, NaN otherwise.
Number(s) ==
    LET t == Trim(s)
    IN  IF t = <<>> THEN Dec(0)
        ELSE IF LiteralPrefix(t).end = Len(t) THEN LiteralValue(LiteralPrefix(t))
        ELSE DecNaN

\* String.prototype.split(":").
RECURSIVE Split(_, _)
Split(s, sep) ==
    LET at == {i \in 1..Len(s) : s[i] = sep}
    IN  IF at = {} THEN <<s>>
        ELSE LET i == CHOOSE i \in at : \A j \in at : i <= j
             IN  <<SubSeq(s, 1, i - 1)>> \o Split(SubSeq(s, i + 1, Len(s)), sep)

\* ---------------------------------------------------------- parseDuration
lapButtonCondition ==
    [conditionTypeId |-> 1, conditionTypeKey |-> "lap.button",
     displayOrder |-> 1, displayable |-> TRUE]
distanceCondition ==
    [conditionTypeId |-> 3, conditionTypeKey |-> "distance",
     displayOrder |-> 3, displayable |-> TRUE]
timeCondition ==
    [conditionTypeId |-> 2, conditionTypeKey |-> "time",
     displayOrder |-> 2, displayable |-> TRUE]

MetersUnconverted(value, unit) == value

\* `unit === "km" ? value * 1000 : value`
Meters(value, unit) ==
    IF unit = <<"k", "m">> THEN DecTimes(value, 1000) ELSE value

TimeSecondsDecimal(parts) ==
    IF Len(parts) = 2 THEN DecPlus(DecTimes(parts[1], 100), parts[2])
    ELSE IF Len(parts) = 3
    THEN DecPlus(DecPlus(DecTimes(parts[1], 10000), DecTimes(parts[2], 100)),
                 parts[3])
    ELSE Dec(0)

\* `let seconds = 0` and the two assignments by the number of parts.
TimeSeconds(parts) ==
    IF Len(parts) = 2 THEN DecPlus(DecTimes(parts[1], 60), parts[2])
    ELSE IF Len(parts) = 3
    THEN DecPlus(DecPlus(DecTimes(parts[1], 3600), DecTimes(parts[2], 60)),
                 parts[3])
    ELSE Dec(0)

parseDuration(duration) ==
    IF duration = <<"O", "p", "e", "n">>
    THEN [conditionType |-> lapButtonCondition, conditionValue |-> Dec(1000)]
    ELSE LET matched == distanceMatch(duration)
         IN  IF matched.found
             THEN [conditionType |-> distanceCondition,
                   conditionValue |->
                       Meters(parseFloat(matched.groups[1]),
                              toLowerCase(matched.groups[2]))]
             ELSE IF \E i \in 1..Len(duration) : duration[i] = ":"
             THEN LET split == Split(duration, ":")
                      parts == [k \in 1..Len(split) |-> Number(split[k])]
                  IN  [conditionType |-> timeCondition,
                       conditionValue |-> TimeSeconds(parts)]
             ELSE [conditionType |-> lapButtonCondition,
                   conditionValue |-> Dec(1000)]

\* ------------------------------------------------------------ parseTarget
noTargetType ==
    [workoutTargetTypeId |-> 1, workoutTargetTypeKey |-> "no.target",
     displayOrder |-> 1]
heartRateZoneType ==
    [workoutTargetTypeId |-> 4, workoutTargetTypeKey |-> "heart.rate.zone",
     displayOrder |-> 4]
heartRateBpmType ==
    [workoutTargetTypeId |-> 2, workoutTargetTypeKey |-> "heart.rate.bpm",
     displayOrder |-> 2]
paceZoneType ==
    [workoutTargetTypeId |-> 6, workoutTargetTypeKey |-> "pace.zone",
     displayOrder |-> 6]

\* `!target || target === "Open"`
IsOpenTarget(target) ==
    target = Missing \/ target = <<>> \/ target = <<"O", "p", "e", "n">>

parseTargetBpmFirst(target) ==
    IF IsOpenTarget(target) THEN [targetType |-> noTargetType, zoneNumber |-> Null]
    ELSE IF bpmMatch(target).found
    THEN [targetType |-> heartRateBpmType, zoneNumber |-> Null]
    ELSE IF zoneMatch(target).found
    THEN [targetType |-> heartRateZoneType,
          zoneNumber |-> parseInt(zoneMatch(target).groups[1])]
    ELSE IF paceMatch(target).found
    THEN [targetType |-> paceZoneType, zoneNumber |-> Null]
    ELSE [targetType |-> noTargetType, zoneNumber |-> Null]

parseTarget(target) ==
    IF IsOpenTarget(target) THEN [targetType |-> noTargetType, zoneNumber |-> Null]
    ELSE IF zoneMatch(target).found
    THEN [targetType |-> heartRateZoneType,
          zoneNumber |-> parseInt(zoneMatch(target).groups[1])]
    ELSE IF bpmMatch(target).found
    THEN [targetType |-> heartRateBpmType, zoneNumber |-> Null]
    ELSE IF paceMatch(target).found
    THEN [targetType |-> paceZoneType, zoneNumber |-> Null]
    ELSE [targetType |-> noTargetType, zoneNumber |-> Null]

\* ------------------------------------------------------ convertWorkoutStep
stepTypeMapping(intensity) ==
    CASE intensity = "warmup" -> [id |-> 1, key |-> "warmup", order |-> 1]
      [] intensity = "cooldown" -> [id |-> 2, key |-> "cooldown", order |-> 2]
      [] intensity = "rest" -> [id |-> 4, key |-> "recovery", order |-> 4]
      [] OTHER -> [id |-> 3, key |-> "interval", order |-> 3]

\* The stepData object before the optional zoneNumber is added.
StepData(step, stepOrder) ==
    LET stepType == stepTypeMapping(step.intensity)
        d == parseDuration(step.duration)
    IN  [stepId |-> stepOrder,
         stepOrder |-> stepOrder,
         stepType |-> [stepTypeId |-> stepType.id, stepTypeKey |-> stepType.key,
                       displayOrder |-> stepType.order],
         type |-> "ExecutableStepDTO",
         endCondition |-> d.conditionType,
         endConditionValue |-> d.conditionValue,
         targetType |-> parseTarget(step.target).targetType]

convertWorkoutStepAlwaysZone(step, stepOrder) ==
    [zoneNumber |-> parseTarget(step.target).zoneNumber]
        @@ StepData(step, stepOrder)

convertWorkoutStep(step, stepOrder) ==
    LET zoneNumber == parseTarget(step.target).zoneNumber
    IN  IF zoneNumber # Null
        THEN [zoneNumber |-> zoneNumber] @@ StepData(step, stepOrder)
        ELSE StepData(step, stepOrder)

\* -------------------------------------------------- convertToGarminPayload
sportMapping(sport) ==
    CASE sport = "cycling" -> [id |-> 2, key |-> "cycling", order |-> 2]
      [] sport = "swimming" -> [id |-> 5, key |-> "swimming", order |-> 5]
      [] OTHER -> [id |-> 1, key |-> "running", order |-> 1]

\* The returned object for the converted steps (constant fields left out).
PayloadWith(wd, workoutSteps) ==
    LET sport == sportMapping(wd.sport)
        sportType == [sportTypeId |-> sport.id, sportTypeKey |-> sport.key,
                      displayOrder |-> sport.order]
    IN  [sportType |-> sportType,
         workoutName |-> wd.name,
         workoutSegments |->
             <<[segmentOrder |-> 1, sportType |-> sportType,
                workoutSteps |-> workoutSteps]>>]

convertToGarminPayloadZeroBased(wd) ==
    PayloadWith(wd, [k \in 1..Len(wd.steps) |->
                        convertWorkoutStep(wd.steps[k], k - 1)])

\* steps.map((step, index) => convertWorkoutStep(step, index + 1)), where
\* the k-th element has index k - 1.
convertToGarminPayload(wd) ==
    PayloadWith(wd, [k \in 1..Len(wd.steps) |->
                        convertWorkoutStep(wd.steps[k], (k - 1) + 1)])

\* --------------------------------------------------- translator: inputs
MaxField == 11
MaxHours == 2
MaxDistance == 12
MaxZone == 5
MaxSteps == 3

\* The decimal digits of n as a string, and padded to two digits.
RECURSIVE DigitsOf(_)
DigitsOf(n) ==
    IF n < 10 THEN <<DecimalDigits[n + 1]>>
    ELSE DigitsOf(n \div 10) \o <<DecimalDigits[(n % 10) + 1]>>
Pad2(n) == IF n < 10 THEN <<"0">> \o DigitsOf(n) ELSE DigitsOf(n)

OpenString == <<"O", "p", "e", "n">>

\* "MM:SS" and "HH:MM:SS" durations.
MinSec(m, s) == DigitsOf(m) \o <<":">> \o Pad2(s)
HourMinSec(h, m, s) == DigitsOf(h) \o <<":">> \o Pad2(m) \o <<":">> \o Pad2(s)

\* "<number> km" and "<number> m" durations: the number with an optional
\* fraction, optional white space, the unit in any case.
Fractions == {<<>>, <<".", "0">>, <<".", "5">>, <<".", "2", "5">>}
Gaps == {<<>>, <<" ">>}
KmUnits == {<<"k", "m">>, <<"K", "M">>, <<"K", "m">>}
MUnits == {<<"m">>, <<"M">>}
DistanceNumbers == 0..MaxDistance \cup {400}
DistanceString(n, frac, gap, unit) == DigitsOf(n) \o frac \o gap \o unit

\* Durations of none of the documented forms.
OddDurations ==
    {<<>>, <<"e", "a", "s", "y">>, <<"1", "0">>, <<"o", "p", "e", "n">>,
     <<"1", ":", "2", ":", "3", ":", "4">>, <<"a", ":", "b">>, <<":">>,
     <<"1", "0", ":">>, <<"1", "0", ":", "x", "x">>,
     <<"1", ".", "5", ":", "3", "0">>, <<" ", "5", " ", ":", " ", "3", "0">>,
     <<"5", " ", "m", "i", "n">>, <<"2", " ", "l", "a", "p", "s">>,
     <<".", " ", "k", "m">>, <<"1", ".", "2", ".", "3", " ", "k", "m">>}

Durations ==
    {OpenString}
        \cup {MinSec(m, s) : m \in 0..MaxField, s \in 0..MaxField}
        \cup {HourMinSec(h, m, s) :
                h \in 0..MaxHours, m \in 0..MaxField, s \in 0..MaxField}
        \cup {DistanceString(n, frac, gap, unit) :
                n \in DistanceNumbers, frac \in Fractions, gap \in Gaps,
                unit \in KmUnits \cup MUnits}
        \cup OddDurations

\* Targets: "Zone <n>", "<n> BPM", "<mm>:<ss>/km", alone and combined.
ZoneString(n) == <<"Z", "o", "n", "e", " ">> \o DigitsOf(n)
BpmString(n) == DigitsOf(n) \o <<" ", "B", "P", "M">>
PaceString(m, s) == MinSec(m, s) \o <<"/", "k", "m">>
BpmValues == {0, 138, 150}
PaceValues == {<<4, 30>>, <<5, 0>>}
Separators == {<<" ">>, <<",", " ">>}
ZoneTargets == {ZoneString(n) : n \in 0..MaxZone}
BpmTargets == {BpmString(n) : n \in BpmValues}
PaceTargets == {PaceString(v[1], v[2]) : v \in PaceValues}
Combined(first, second) == {a \o sep \o b : a \in first, sep \in Separators, b \in second}
OddTargets ==
    {Missing, <<>>, OpenString, <<"e", "a", "s", "y">>, <<"Z", "o", "n", "e", "3">>,
     <<"z", "o", "n", "e", " ", " ", "3">>, <<"Z", "O", "N", "E", "\t", "1", "2">>,
     <<"H", "R", " ", "Z", "o", "n", "e", " ", "4", " ", "t", "e", "m", "p", "o">>,
     <<"1", "4", "0", "b", "p", "m">>, <<"B", "P", "M">>, <<"4", ":", "3", "0">>,
     <<"4", ":", "3", "0", "/", "m", "i">>, <<"Z", "o", "n", "e", " ", "x">>}
Targets ==
    ZoneTargets \cup BpmTargets \cup PaceTargets \cup OddTargets
        \cup Combined(ZoneTargets, BpmTargets) \cup Combined(BpmTargets, ZoneTargets)
        \cup Combined(ZoneTargets, PaceTargets) \cup Combined(PaceTargets, ZoneTargets)
        \cup Combined(BpmTargets, PaceTargets) \cup Combined(PaceTargets, BpmTargets)

Intensities == {"warmup", "active", "rest", "cooldown", "sprint"}
Sports == {"running", "cycling", "swimming", "rowing"}

Step(name, duration, target, intensity) ==
    [name |-> name, duration |-> duration, target |-> target,
     intensity |-> intensity]

\* The steps of a warm-up / interval / recovery / cool-down session.
SampleSteps ==
    {Step("Warm up", MinSec(10, 0), ZoneString(2), "warmup"),
     Step("Interval", <<"1", " ", "k", "m">>, ZoneString(4), "active"),
     Step("Recovery", MinSec(2, 0), OpenString, "rest"),
     Step("Cool down", MinSec(10, 0), ZoneString(2), "cooldown")}

\* The workouts handed to the converter: every duration and every target
\* in a one-step workout, every sport and intensity, and every sequence of
\* at most MaxSteps sample steps.
WorkoutInputs ==
    {[name |-> "Probe", sport |-> "running",
      steps |-> <<Step("Probe", d, ZoneString(2), "active")>>] : d \in Durations}
        \cup {[name |-> "Probe", sport |-> "running",
               steps |-> <<Step("Probe", OpenString, t, "active")>>] : t \in Targets}
        \cup {[name |-> "Probe", sport |-> s,
               steps |-> <<Step("Probe", OpenString, OpenString, i)>>] :
                s \in Sports, i \in Intensities}
        \cup {[name |-> "Session", sport |-> "running", steps |-> q] :
                q \in UNION {[1..n -> SampleSteps] : n \in 0..MaxSteps}}

\* ------------------------------------------------ translator: behaviour
InitTranslate ==
    /\ now = 0
    /\ authFile = AbsentFile
    /\ pc = [p \in Procs |-> "idle"]
    /\ tool = [p \in Procs |-> "none"]
    /\ browser = [p \in Procs |-> "none"]
    /\ authToken = [p \in Procs |-> NoToken]
    /\ cookies = [p \in Procs |-> NoCookies]
    /\ authData = [p \in Procs |-> NoAuth]
    /\ threw = [p \in Procs |-> FALSE]
    /\ wrote = [p \in Procs |-> FALSE]
    /\ posts = [p \in Procs |-> 0]
    /\ status = [p \in Procs |-> 0]
    /\ body = [p \in Procs |-> NoBody]
    /\ raised = [p \in Procs |-> ""]
    /\ response = [p \in Procs |-> RespNone]
    /\ requests = [p \in Procs |-> <<>>]
    /\ reloads = [p \in Procs |-> 0]
    /\ loginCompleted = [p \in Procs |-> FALSE]
    /\ workoutData \in WorkoutInputs
    /\ payload = NoPayload

\* `const payload = convertToGarminPayload(workoutData)`
ConvertToGarminPayload ==
    /\ payload = NoPayload
    /\ payload' = convertToGarminPayload(workoutData)
    /\ UNCHANGED <<now, authFile, pc, tool, browser, authToken, cookies, authData,
                   threw, wrote, posts, status, body, raised, response,
                   requests, reloads, loginCompleted, workoutData>>

NextTranslate == ConvertToGarminPayload

SpecTranslate == InitTranslate /\ [][NextTranslate]_vars

\* ============================================================= properties

\* What getValidAuth is to return for a file at time t: the stored record
\* when it is a record whose expiresAt lies more than 30 s ahead, else null.
ValidStored(file, t) ==
    IF /\ file.kind = "json"
       /\ ~file.val.isNull
       /\ file.val.expiresAt >= 0
       /\ t + 30000 < file.val.expiresAt
    THEN file.val ELSE NoAuth

C2_AcquiresBeforeSubmit ==
    \A p \in Procs :
        (tool[p] = Create /\ pc[p] = "done" /\ authData[p].isNull)
        => (browser[p] # "none" /\ wrote[p])

\* C3: authenticate never raises past its boundary: no call of authenticate
\* ends by throwing.
C3_AuthenticateNeverThrows ==
    \A p \in Procs : ~threw[p]

\* C4: whenever authenticate returns a credential, the store holds exactly
\* that credential record at that moment.
C4_ReturnedIsStored ==
    [][\A p \in Procs :
          (pc[p] = "close" /\ pc'[p] = "done" /\ ~threw'[p] /\ ~authData'[p].isNull)
          => authFile' = JsonStringify(authData'[p])]_vars

\* C5: whenever authenticate ends in failure (a null result or an error),
\* this call has not replaced the stored credential.
C5_FailureLeavesStore ==
    \A p \in Procs :
        (tool[p] = Authenticate /\ pc[p] = "done"
            /\ (threw[p] \/ authData[p].isNull))
        => ~wrote[p]

C7_OneAcquisitionAtATime ==
    Cardinality({p \in Procs : browser[p] = "open"}) <= 1

\* Files that hold no credential record: absent, blank, not JSON, `null`, or
\* an object without the fields of a credential.
NotACredential(file) ==
    \/ file.kind \in {"absent", "empty", "garbage"}
    \/ file.kind = "json" /\ (file.val.isNull \/ file.val = EmptyObject)

C10_AuthExpiredInvalidates ==
    [][\A p \in Procs :
          (pc[p] = "fetch" /\ pc'[p] = "done" /\ status'[p] = 401
              /\ response'[p].error = AuthExpiredError)
          => getValidAuth(authFile', now').val.isNull]_vars

C12_HttpErrorCarriesStatusAndBody ==
    \A p \in Procs :
        (/\ tool[p] = Create /\ pc[p] = "done"
         /\ status[p] = 500 /\ ~body[p].json)
        => LET args == response[p].error.args
           IN  /\ response[p].text = "Failed to create workout: ${result.error}"
               /\ response[p].error # AuthExpiredError
               /\ raised[p] = ""
               /\ \E i \in DOMAIN args : args[i] = "500"
               /\ \E i \in DOMAIN args : args[i] = body[p].text

\* C13: createGarminWorkout never throws: whenever an error is raised while
\* the workout is built or submitted (the steps cannot be converted, the
\* fetch rejects, the body of a 2xx response cannot be read), the handler
\* answers with the failure text of a returned result, and the result's
\* error detail is the message of that error.
C13_ErrorsBecomeFailureResults ==
    \A p \in Procs :
        (tool[p] = Create /\ pc[p] = "done" /\ raised[p] # "")
        => /\ response[p].text = "Failed to create workout: ${result.error}"
           /\ response[p].error.msg = raised[p]
           /\ response[p].created = NoCreated

C13_Witness ==
    \E p \in Procs :
        /\ tool[p] = Create /\ pc[p] = "done" /\ posts[p] = 1
        /\ raised[p] = "fetch failed"
        /\ response[p].error.msg = "fetch failed"

\* The converted steps of the payload, once it is built.
Built == payload # NoPayload
OutSteps == payload.workoutSegments[1].workoutSteps

\* C14: the payload has exactly one segment; its workoutSteps has the
\* length of the input steps; the k-th output step has stepOrder k and a
\* stepId equal to its stepOrder, and is the conversion of the k-th input
\* step (for the sample session: its step type, end condition, value and
\* target).
C14_OneSegmentStepsInOrder ==
    Built =>
        /\ Len(payload.workoutSegments) = 1
        /\ Len(OutSteps) = Len(workoutData.steps)
        /\ \A k \in 1..Len(workoutData.steps) :
              LET in == workoutData.steps[k]
                  out == OutSteps[k]
                  Is(stepTypeKey, conditionKey, seconds, targetKey) ==
                      /\ out.stepType.stepTypeKey = stepTypeKey
                      /\ out.endCondition.conditionTypeKey = conditionKey
                      /\ out.endConditionValue = [n |-> seconds, e |-> 0]
                      /\ out.targetType.workoutTargetTypeKey = targetKey
              IN  /\ out.stepOrder = k
                  /\ out.stepId = out.stepOrder
                  /\ in.name = "Warm up" =>
                        Is("warmup", "time", 600, "heart.rate.zone")
                  /\ in.name = "Interval" =>
                        Is("interval", "distance", 1000, "heart.rate.zone")
                  /\ in.name = "Recovery" =>
                        Is("recovery", "time", 120, "no.target")
                  /\ in.name = "Cool down" =>
                        Is("cooldown", "time", 600, "heart.rate.zone")

C14_Witness ==
    /\ Built
    /\ Len(workoutData.steps) = 3
    /\ workoutData.steps[1].name = "Interval"
    /\ workoutData.steps[3].name = "Warm up"
    /\ OutSteps[3].stepOrder = 3
    /\ OutSteps[3].stepType.stepTypeKey = "warmup"

\* C15: a step whose duration is "Open", or a string of none of the
\* recognized forms (among them a colon-separated string with four
\* components, or with components that are not numbers), gets the
\* lap-button end condition with the value 1000, not a time condition.
C15_UnrecognizedIsLapButton ==
    Built =>
        \A k \in 1..Len(workoutData.steps) :
            workoutData.steps[k].duration \in
                {<<"O", "p", "e", "n">>, <<>>, <<"e", "a", "s", "y">>,
                 <<"1", ":", "2", ":", "3", ":", "4">>, <<"a", ":", "b">>,
                 <<"1", "0", ":", "x", "x">>}
            => /\ OutSteps[k].endCondition.conditionTypeKey = "lap.button"
               /\ OutSteps[k].endConditionValue = [n |-> 1000, e |-> 0]

\* C16: a step whose duration is "MM:SS" gets the time end condition with
\* the value MM * 60 + SS, and one whose duration is "HH:MM:SS" gets it
\* with the value HH * 3600 + MM * 60 + SS.
C16_TimeIsSeconds ==
    Built =>
        \A k \in 1..Len(workoutData.steps) :
            LET duration == workoutData.steps[k].duration
                out == OutSteps[k]
            IN  /\ \A m \in 0..MaxField, s \in 0..MaxField :
                      duration = MinSec(m, s)
                      => /\ out.endCondition.conditionTypeKey = "time"
                         /\ out.endConditionValue = [n |-> m * 60 + s, e |-> 0]
                /\ \A h \in 0..MaxHours, m \in 0..MaxField, s \in 0..MaxField :
                      duration = HourMinSec(h, m, s)
                      => /\ out.endCondition.conditionTypeKey = "time"
                         /\ out.endConditionValue =
                               [n |-> h * 3600 + m * 60 + s, e |-> 0]

C16_Witness ==
    /\ Built
    /\ \E k \in 1..Len(workoutData.steps) :
          /\ workoutData.steps[k].duration =
                <<"1", ":", "1", "0", ":", "0", "5">>
          /\ OutSteps[k].endConditionValue = [n |-> 4205, e |-> 0]

\* C17: a step whose duration is "<number> km", in any case of the unit,
\* gets the distance end condition with the value number * 1000, and one
\* whose duration is "<number> m" gets it with the number itself.
C17_DistanceIsMeters ==
    Built =>
        \A k \in 1..Len(workoutData.steps) :
            LET duration == workoutData.steps[k].duration
                out == OutSteps[k]
                \* a fraction, its thousandths, and the number n + fraction
                Cases == {<<<<>>, 0, 1, 0, 0>>, <<<<".", "0">>, 0, 1, 0, 0>>,
                          <<<<".", "5">>, 500, 10, 5, 1>>,
                          <<<<".", "2", "5">>, 250, 100, 25, 2>>}
            IN  \A n \in DistanceNumbers, c \in Cases, gap \in Gaps :
                    /\ \A unit \in KmUnits :
                          duration = DistanceString(n, c[1], gap, unit)
                          => /\ out.endCondition.conditionTypeKey = "distance"
                             /\ out.endConditionValue =
                                   [n |-> n * 1000 + c[2], e |-> 0]
                    /\ \A unit \in MUnits :
                          duration = DistanceString(n, c[1], gap, unit)
                          => /\ out.endCondition.conditionTypeKey = "distance"
                             /\ out.endConditionValue =
                                   [n |-> n * c[3] + c[4], e |-> c[5]]

C17_Witness ==
    /\ Built
    /\ \E k \in 1..Len(workoutData.steps) :
          /\ workoutData.steps[k].duration = <<"2", ".", "5", " ", "K", "M">>
          /\ OutSteps[k].endCondition.conditionTypeKey = "distance"
          /\ OutSteps[k].endConditionValue = [n |-> 2500, e |-> 0]

\* C18: the target patterns are tried in the order zone, BPM, pace, and the
\* first that matches decides: a missing, empty or "Open" target gives
\* no-target; a target containing "Zone <n>" gives heart-rate-zone n, also
\* when it contains a BPM or pace pattern, before or after; otherwise one
\* containing "<n> BPM" gives heart-rate-bpm, also when it contains a pace
\* pattern; otherwise one containing "<mm>:<ss>/km" gives pace-zone;
\* otherwise no-target.
C18_FirstMatchWins ==
    Built =>
        \A k \in 1..Len(workoutData.steps) :
            LET target == workoutData.steps[k].target
                out == OutSteps[k]
                key == out.targetType.workoutTargetTypeKey
            IN  /\ target \in {Missing, <<>>, <<"O", "p", "e", "n">>}
                   => key = "no.target"
                /\ \A n \in 0..MaxZone :
                      LET zone == {ZoneString(n)}
                      IN  target \in zone
                              \cup Combined(zone, BpmTargets)
                              \cup Combined(BpmTargets, zone)
                              \cup Combined(zone, PaceTargets)
                              \cup Combined(PaceTargets, zone)
                          => key = "heart.rate.zone" /\ out.zoneNumber = n
                /\ target \in BpmTargets \cup Combined(BpmTargets, PaceTargets)
                                  \cup Combined(PaceTargets, BpmTargets)
                   => key = "heart.rate.bpm"
                /\ target \in PaceTargets => key = "pace.zone"
                /\ target \in {<<"e", "a", "s", "y">>, <<"Z", "o", "n", "e", "3">>,
                               <<"B", "P", "M">>, <<"4", ":", "3", "0">>,
                               <<"4", ":", "3", "0", "/", "m", "i">>,
                               <<"Z", "o", "n", "e", " ", "x">>}
                   => key = "no.target"

C18_Witness ==
    /\ Built
    /\ \E k \in 1..Len(workoutData.steps) :
          /\ workoutData.steps[k].target =
                <<"1", "5", "0", " ", "B", "P", "M", ",", " ", "Z", "o", "n", "e",
                  " ", "3">>
          /\ OutSteps[k].targetType.workoutTargetTypeKey = "heart.rate.zone"
          /\ OutSteps[k].zoneNumber = 3

\* C19: an output step has a zoneNumber field exactly when its target type
\* is heart-rate-zone, and the field then holds the integer read from the
\* target; steps with any other target type have no zoneNumber field.
C19_ZoneNumberIffZoneTarget ==
    Built =>
        \A k \in 1..Len(workoutData.steps) :
            LET target == workoutData.steps[k].target
                out == OutSteps[k]
            IN  /\ "zoneNumber" \in DOMAIN out
                   <=> out.targetType.workoutTargetTypeKey = "heart.rate.zone"
                /\ \A n \in 0..MaxZone :
                      target = ZoneString(n) => out.zoneNumber = n
                /\ target = <<"Z", "O", "N", "E", "\t", "1", "2">>
                   => out.zoneNumber = 12
                /\ target = <<"z", "o", "n", "e", " ", " ", "3">>
                   => out.zoneNumber = 3

C19_Witness ==
    /\ Built
    /\ Len(workoutData.steps) = 2
    /\ workoutData.steps[1].name = "Interval"
    /\ workoutData.steps[2].name = "Recovery"
    /\ OutSteps[1].zoneNumber = 4
    /\ "zoneNumber" \notin DOMAIN OutSteps[2]

\* C20: the expiresAt and issuedAt of every credential authenticate
\* produces come from the captured token alone: exp * 1000 and iat * 1000
\* of the claims its middle segment decodes to (NaN for a claim that is not
\* there), or both 0 when the token has no decodable middle segment; and
\* getValidAuth never returns a credential whose expiresAt is 0.
C20_TimesFromTokenOnly ==
    \A p \in Procs :
        /\ (tool[p] = Authenticate /\ ~authData[p].isNull)
           => LET parts == authData[p].authToken.parts
                  decodable == Len(parts) >= 2 /\ parts[2].kind = "claims"
                  Scaled(claim) == IF claim = Undefined THEN NaN ELSE claim * 1000
              IN  IF decodable
                  THEN /\ authData[p].expiresAt = Scaled(parts[2].exp)
                       /\ authData[p].issuedAt = Scaled(parts[2].iat)
                  ELSE /\ authData[p].expiresAt = 0
                       /\ authData[p].issuedAt = 0
        /\ (tool[p] \in {Check, Create} /\ ~authData[p].isNull)
           => authData[p].expiresAt # 0

C20_Witness ==
    \E p \in Procs, q \in Procs :
        /\ tool[p] = Authenticate /\ pc[p] = "done"
        /\ authData[p].authToken = OpaqueBearer
        /\ authData[p].expiresAt = 0
        /\ authFile = JsonStringify(authData[p])
        /\ tool[q] = Check /\ pc[q] = "done"
        /\ response[q] = RespNoValidAuth

\* The first bearer header of a history of requests, NoToken when it has none.
FirstBearer(log) ==
    LET at == {i \in 1..Len(log) : log[i].scheme = "Bearer"}
    IN  IF at = {} THEN NoToken
        ELSE log[CHOOSE i \in at : \A j \in at : i <= j]

\* C21: within one acquisition the captured token is the authorization
\* header of the first request whose header is a bearer one: headers that
\* are not bearer never set it and later bearer headers never replace it,
\* and a credential is built from it.  When the login completes with no
\* bearer header seen, page.reload() is called, once, before the token is
\* checked; when one was seen, it is not called.
C21_FirstBearerThenOneReload ==
    [][\A p \in Procs :
          /\ pc'[p] \in {"goto", "waitLogin", "reload"}
             => authToken'[p] = FirstBearer(requests'[p])
          /\ (tool[p] = "authenticate_garmin"
                /\ authData[p].isNull /\ ~authData'[p].isNull)
             => authData'[p].authToken = FirstBearer(requests[p])
          /\ (~loginCompleted[p] /\ loginCompleted'[p])
             => IF FirstBearer(requests[p]) = NoToken
                THEN pc'[p] = "reload" /\ reloads'[p] = 1
                ELSE pc'[p] = "close" /\ reloads'[p] = 0
          /\ (pc'[p] = "reload" /\ pc[p] # "reload")
             => ~loginCompleted[p] /\ loginCompleted'[p]
          /\ pc[p] = "reload" => pc'[p] \in {"reload", "close"}
          /\ reloads'[p] <= 1
      ]_vars

C21_Witness ==
    \E p \in Procs :
        /\ pc[p] = "reload" /\ reloads[p] = 1
        /\ Len(requests[p]) = 3
        /\ requests[p][1].scheme = "Basic"
        /\ requests[p][2] = NoExpBearer
        /\ requests[p][3].scheme = "Bearer" /\ requests[p][3] # NoExpBearer
        /\ authToken[p] = NoExpBearer

\* C22: when authenticate returns a credential and the authenticate_garmin
\* tool answers "Successfully authenticated", the credential passes the
\* validity check at that instant (its expiresAt is a number more than 30 s
\* ahead) and getValidAuth, called at that instant, returns it.
C22_SuccessMeansValid ==
    [][\A p \in Procs :
          (/\ pc[p] = "close" /\ pc'[p] = "done"
           /\ response'[p].text = "Successfully authenticated with Garmin Connect!")
          => /\ authData'[p].expiresAt >= 0
             /\ now' + 30000 < authData'[p].expiresAt
             /\ ValidStored(authFile', now').authToken = authData'[p].authToken
             /\ ValidStored(authFile', now').cookies = authData'[p].cookies
      ]_vars

======================================================================
